---- MODULE Spec2Model ----
(***************************************************************************)
(* Model of performance-allegion-app.py: one Streamlit script that reads   *)
(* an uploaded CSV, validates it, extracts metadata and renders, per       *)
(* selected KPI, a trend chart, a bar chart and a statistics table.        *)
(*                                                                         *)
(* A data frame is [columns |-> set of column names, rows |-> sequence of  *)
(* rows], a row being a function from the frame's columns to cells.  A     *)
(* cell is what pd.read_csv leaves in the frame: <<>> for an empty CSV     *)
(* cell (pandas' NaN), <<"text">> for a text cell, <<n>> for a number.     *)
(* A statistic is NaN or an exact fraction <<numerator, denominator>> in   *)
(* lowest terms.                                                           *)
(***************************************************************************)
EXTENDS Integers, Sequences, FiniteSets, TLC

VARIABLES
    uploaded_file,      \* what st.sidebar.file_uploader returns: None or the CSV's table
    widget,             \* the KPI multiselect's stored user choice: "default" or a list
    pc,                 \* position of the current script run
    data_set,           \* pd.read_csv(uploaded_file), None before it is read
    missing_columns,    \* the list computed on line 36
    csv_status,         \* "unset" until line 44 is evaluated, then "true" / "false"
    messages,           \* st.error / st.warning calls of this run, in order
    rendered,           \* kinds of the outputs rendered by this run, in order
    metadata,           \* os, build, device, os_version, unique_features, unique_kpis
    selected_kpis,      \* what st.sidebar.multiselect returned in this run
    listing,            \* the "KPI Mapping by Feature" expanders rendered so far
    analyses,           \* per selected KPI handled so far: kpi_data, mean_data, summary
    seen_metadata,      \* every metadata value a run of this upload has produced
    seen_analyses       \* every <<kpi, analysis>> a run of this upload has produced

vars == <<uploaded_file, widget, pc, data_set, missing_columns, csv_status, messages,
          rendered, metadata, selected_kpis, listing, analyses, seen_metadata,
          seen_analyses>>

(***************************************************************************)
(* Program constants.                                                      *)
(***************************************************************************)
REQUIRED_COLUMNS ==
    <<"OS", "Build Number", "Target Device", "OS Version",
      "Load", "feature", "KPI Name", "KPI Value">>

CONSTANT_COLUMNS == <<"OS", "Build Number", "Target Device", "OS Version">>

None == [columns |-> {}, rows |-> <<>>, none |-> TRUE]

NaN == <<>>

Range(s) == {s[i] : i \in 1..Len(s)}

\* The list comprehension [x for x in s if Keep(x)].
RECURSIVE Comprehension(_, _)
Comprehension(s, keep) ==
    IF s = <<>> THEN <<>>
    ELSE IF Head(s) \in keep
         THEN <<Head(s)>> \o Comprehension(Tail(s), keep)
         ELSE Comprehension(Tail(s), keep)

\* data_set[col]: the column as a sequence of cells, in row order.
Column(df, col) == [i \in 1..Len(df.rows) |-> df.rows[i][col]]

\* Series.nunique(): the number of distinct values, NaN not counted (dropna=True).
nunique(series) == Cardinality(Range(series) \ {NaN})

\* Reports only the first missing column.
MissingColumnsFirstOnly(df) ==
    LET all == Comprehension(REQUIRED_COLUMNS, Range(REQUIRED_COLUMNS) \ df.columns)
    IN  IF all = <<>> THEN <<>> ELSE <<Head(all)>>

\* Line 36.
MissingColumns(df) ==
    Comprehension(REQUIRED_COLUMNS, Range(REQUIRED_COLUMNS) \ df.columns)

\* any(...) in place of all(...).
CsvStatusAny(df) ==
    \E i \in 1..Len(CONSTANT_COLUMNS) : nunique(Column(df, CONSTANT_COLUMNS[i])) = 1

\* Line 44.
CsvStatus(df) ==
    \A i \in 1..Len(CONSTANT_COLUMNS) : nunique(Column(df, CONSTANT_COLUMNS[i])) = 1

(***************************************************************************)
(* pandas / Python operations the script uses.                             *)
(***************************************************************************)
Front(s) == SubSeq(s, 1, Len(s) - 1)

Last(s) == s[Len(s)]

\* Series.unique(): the distinct values in first-seen order, NaN kept as a value.
RECURSIVE unique(_)
unique(series) ==
    IF series = <<>> THEN <<>>
    ELSE LET u == unique(Front(series))
         IN  IF Last(series) \in Range(u) THEN u ELSE Append(u, Last(series))

\* Python's order on str (code points), on the texts the model's inputs use.
TextOrder == <<"A", "B", "C", "D", "High", "Low", "a", "b", "f1", "f2", "x">>

TextRank(t) == CHOOSE i \in 1..Len(TextOrder) : TextOrder[i] = t

TextLess(a, b) == TextRank(a[1]) < TextRank(b[1])

RECURSIVE InsertText(_, _)
InsertText(s, x) ==
    IF s = <<>> THEN <<x>>
    ELSE IF TextLess(x, Head(s)) THEN <<x>> \o s
         ELSE <<Head(s)>> \o InsertText(Tail(s), x)

RECURSIVE SortText(_)
SortText(s) == IF s = <<>> THEN <<>> ELSE InsertText(SortText(Front(s)), Last(s))

\* sorted(kpis) raises TypeError when it has to compare NaN (a float) with a str.
SortedRaises(kpis) == NaN \in Range(kpis) /\ Len(kpis) > 1

\* sorted(kpis) when it does not raise.
sorted(kpis) == IF NaN \in Range(kpis) THEN kpis ELSE SortText(kpis)

\* The group keys of DataFrame.groupby(col): the distinct values of the column,
\* NaN dropped (dropna=True), in sorted order (sort=True).
GroupKeys(series) == SortText(SelectSeq(unique(series), LAMBDA v : v # NaN))

\* Positions of the rows whose cell in col equals key; NaN equals nothing.
RowsWhere(df, col, key) ==
    {i \in 1..Len(df.rows) : df.rows[i][col] # NaN /\ df.rows[i][col] = key}

\* The set of positions as an increasing sequence.
RECURSIVE Ascending(_)
Ascending(S) ==
    IF S = {} THEN <<>>
    ELSE LET m == CHOOSE x \in S : \A y \in S : y <= x
         IN  Append(Ascending(S \ {m}), m)

\* Line 94: data_set.groupby('feature')['KPI Name'].unique().
Grouped(df) ==
    LET keys == GroupKeys(Column(df, "feature"))
    IN  [k \in 1..Len(keys) |->
            [feature |-> keys[k],
             kpis |-> LET at == Ascending(RowsWhere(df, "feature", keys[k]))
                      IN  unique([j \in 1..Len(at) |-> df.rows[at[j]]["KPI Name"]])]]

\* Lines 96-99: one expander per feature with its sorted KPI names; the first
\* feature on which sorted() raises gets its expander and no bullet, and ends the run.
RECURSIVE RenderListing(_)
RenderListing(grouped) ==
    IF grouped = <<>> THEN [entries |-> <<>>, raised |-> FALSE]
    ELSE LET before == RenderListing(Front(grouped))
             g == Last(grouped)
         IN  IF before.raised THEN before
             ELSE IF SortedRaises(g.kpis)
                  THEN [entries |-> Append(before.entries,
                                           [feature |-> g.feature, kpis |-> <<>>]),
                        raised |-> TRUE]
                  ELSE [entries |-> Append(before.entries,
                                           [feature |-> g.feature, kpis |-> sorted(g.kpis)]),
                        raised |-> FALSE]

\* sorted(unique_kpis)[:3].
DefaultKpisSorted(unique_kpis) ==
    LET named == SortText(SelectSeq(unique_kpis, LAMBDA v : v # NaN))
    IN  SubSeq(named, 1, IF Len(named) < 3 THEN Len(named) ELSE 3)

\* Line 72: unique_kpis[:3].
DefaultKpis(unique_kpis) ==
    SubSeq(unique_kpis, 1, IF Len(unique_kpis) < 3 THEN Len(unique_kpis) ELSE 3)

(***************************************************************************)
(* Per-KPI aggregation, lines 115-153.                                     *)
(***************************************************************************)
\* Line 115: data_set[data_set['KPI Name'] == kpi].copy(); the copy keeps each
\* row's index label (its position in data_set). NaN == kpi is False.
FilterKpi(df, kpi) ==
    LET at == Ascending(RowsWhere(df, "KPI Name", kpi))
    IN  [columns |-> df.columns,
         index |-> at,
         rows |-> [j \in 1..Len(at) |-> df.rows[at[j]]]]

\* cumcount() over the whole frame, without the groupby.
RunIndexUngrouped(frame) == [j \in 1..Len(frame.rows) |-> <<j>>]

\* groupby('Load').cumcount() + 1: the 0-based position of each row within its
\* Load group, plus one; NaN for a row whose Load is NaN (it is in no group).
RunIndex(frame) ==
    [j \in 1..Len(frame.rows) |->
        IF frame.rows[j]["Load"] = NaN THEN NaN
        ELSE <<Cardinality({q \in 1..(j - 1) :
                               frame.rows[q]["Load"] = frame.rows[j]["Load"]}) + 1>>]

\* Line 116: kpi_data['Run'] = ...
WithRun(frame) ==
    LET run == RunIndex(frame)
    IN  [columns |-> frame.columns \cup {"Run"},
         index |-> frame.index,
         rows |-> [j \in 1..Len(frame.rows) |->
                      [c \in frame.columns \cup {"Run"} |->
                          IF c = "Run" THEN run[j] ELSE frame.rows[j][c]]]]

RECURSIVE GCD(_, _)
GCD(a, b) == IF b = 0 THEN a ELSE GCD(b, a % b)

\* The number n / d.
Frac(n, d) == LET g == GCD(n, d) IN <<n \div g, d \div g>>

\* The numbers of the cells that hold one (statistics skip NaN), in row order.
Present(cells) ==
    LET kept == SelectSeq(cells, LAMBDA v : v # NaN)
    IN  [j \in 1..Len(kept) |-> kept[j][1]]

RECURSIVE Sum(_)
Sum(nums) == IF nums = <<>> THEN 0 ELSE Sum(Front(nums)) + Last(nums)

RECURSIVE InsertNum(_, _)
InsertNum(s, x) ==
    IF s = <<>> THEN <<x>>
    ELSE IF x < Head(s) THEN <<x>> \o s
         ELSE <<Head(s)>> \o InsertNum(Tail(s), x)

RECURSIVE SortNum(_)
SortNum(s) == IF s = <<>> THEN <<>> ELSE InsertNum(SortNum(Front(s)), Last(s))

\* The upper of the two central values for an even count, not their average.
MedianUpper(cells) ==
    LET nums == SortNum(Present(cells))
        n == Len(nums)
    IN  IF n = 0 THEN NaN ELSE Frac(nums[n \div 2 + 1], 1)

\* GroupBy.mean / min / max / median of one group's cells.
Mean(cells) ==
    LET nums == Present(cells)
    IN  IF nums = <<>> THEN NaN ELSE Frac(Sum(nums), Len(nums))

Min(cells) ==
    LET nums == SortNum(Present(cells))
    IN  IF nums = <<>> THEN NaN ELSE Frac(nums[1], 1)

Max(cells) ==
    LET nums == SortNum(Present(cells))
    IN  IF nums = <<>> THEN NaN ELSE Frac(nums[Len(nums)], 1)

Median(cells) ==
    LET nums == SortNum(Present(cells))
        n == Len(nums)
    IN  IF n = 0 THEN NaN
        ELSE IF n % 2 = 1 THEN Frac(nums[(n + 1) \div 2], 1)
        ELSE Frac(nums[n \div 2] + nums[n \div 2 + 1], 2)

\* The KPI Value cells of the rows of kpi_data whose Load is key, in row order.
GroupValues(frame, key) ==
    LET at == Ascending(RowsWhere(frame, "Load", key))
    IN  [j \in 1..Len(at) |-> frame.rows[at[j]]["KPI Value"]]

\* Line 135: kpi_data.groupby('Load', as_index=False)['KPI Value'].mean().
MeanData(frame) ==
    LET keys == GroupKeys(Column(frame, "Load"))
    IN  [k \in 1..Len(keys) |->
            [Load |-> keys[k], value |-> Mean(GroupValues(frame, keys[k]))]]

\* Lines 151-152: groupby('Load')['KPI Value'].agg(['min','max','mean','median']).
Summary(frame) ==
    LET keys == GroupKeys(Column(frame, "Load"))
    IN  [k \in 1..Len(keys) |->
            LET cells == GroupValues(frame, keys[k])
            IN  [Load |-> keys[k], min |-> Min(cells), max |-> Max(cells),
                 mean |-> Mean(cells), median |-> Median(cells)]]

\* One pass of the loop body, lines 111-153, for one selected KPI.
Analyse(df, kpi) ==
    LET kpi_data == WithRun(FilterKpi(df, kpi))
    IN  [kpi |-> kpi, kpi_data |-> kpi_data,
         mean_data |-> MeanData(kpi_data), summary |-> Summary(kpi_data)]

(***************************************************************************)
(* The script run.                                                         *)
(***************************************************************************)
Numerals == {"1", "2", "4"}

NumberOf(text) == CASE text = "1" -> 1 [] text = "2" -> 2 [] text = "4" -> 4

\* pd.read_csv infers a numeric column when every non-empty cell is a numeral.
IsNumeric(file, col) ==
    \A i \in 1..Len(file.rows) : file.rows[i][col] \in Numerals \cup {""}

\* Line 32: pd.read_csv(uploaded_file). An empty cell becomes NaN, a cell of a
\* numeric column its number, any other cell stays text.
read_csv(file) ==
    [columns |-> file.columns,
     rows |-> [i \in 1..Len(file.rows) |->
                  [c \in file.columns |->
                      IF file.rows[i][c] = "" THEN NaN
                      ELSE IF IsNumeric(file, c) THEN <<NumberOf(file.rows[i][c])>>
                      ELSE <<file.rows[i][c]>>]]]

\* Lines 38-39.
MissingMessages(missing) ==
    <<[kind |-> "error", about |-> "missing columns", columns |-> missing],
      [kind |-> "warning", about |-> "required columns", columns |-> REQUIRED_COLUMNS]>>

\* Names only the constant columns that are inconsistent.
InconsistentMessagesNamed(df) ==
    <<[kind |-> "error", about |-> "inconsistent data", columns |-> <<>>],
      [kind |-> "warning", about |-> "constant columns",
       columns |-> SelectSeq(CONSTANT_COLUMNS,
                             LAMBDA c : Cardinality(Range(Column(df, c)) \ {<<>>}) # 1)]>>

\* Lines 46-47.
InconsistentMessages(df) ==
    <<[kind |-> "error", about |-> "inconsistent data", columns |-> <<>>],
      [kind |-> "warning", about |-> "constant columns", columns |-> CONSTANT_COLUMNS]>>

\* The dashboard is not the else branch of the constant-column check.
ValidationOutcomeNoElse(df) ==
    LET missing == MissingColumns(df)
    IN  IF missing # <<>>
        THEN [missing_columns |-> missing, csv_status |-> "unset",
              messages |-> MissingMessages(missing),
              rendered |-> <<"error", "warning">>, pc |-> "stopped"]
        ELSE IF ~CsvStatus(df)
        THEN [missing_columns |-> missing, csv_status |-> "false",
              messages |-> InconsistentMessages(df),
              rendered |-> <<"error", "warning", "title">>, pc |-> "extract"]
        ELSE [missing_columns |-> missing, csv_status |-> "true",
              messages |-> <<>>, rendered |-> <<"title">>, pc |-> "extract"]

\* Lines 36-54: the column check, st.stop() when it fails, and otherwise the
\* constant-column check with the dashboard as its else branch.
ValidationOutcome(df) ==
    LET missing == MissingColumns(df)
    IN  IF missing # <<>>
        THEN [missing_columns |-> missing, csv_status |-> "unset",
              messages |-> MissingMessages(missing),
              rendered |-> <<"error", "warning">>, pc |-> "stopped"]
        ELSE IF ~CsvStatus(df)
        THEN [missing_columns |-> missing, csv_status |-> "false",
              messages |-> InconsistentMessages(df),
              rendered |-> <<"error", "warning">>, pc |-> "done"]
        ELSE [missing_columns |-> missing, csv_status |-> "true",
              messages |-> <<>>, rendered |-> <<"title">>, pc |-> "extract"]

\* Lines 57-64.
Extract(df) ==
    [os |-> df.rows[1]["OS"],
     build |-> df.rows[1]["Build Number"],
     device |-> df.rows[1]["Target Device"],
     os_version |-> df.rows[1]["OS Version"],
     unique_features |-> unique(Column(df, "feature")),
     unique_kpis |-> unique(Column(df, "KPI Name"))]

\* Lines 69-73: the multiselect returns its default until the user has chosen.
Multiselect(w, unique_kpis) ==
    IF w.touched THEN w.value ELSE DefaultKpis(unique_kpis)

\* Run is assigned to data_set itself: rows of other KPIs get NaN.
HeldAfterInPlace(df, kpi) ==
    LET run == RunIndex(df)
    IN  [columns |-> df.columns \cup {"Run"},
         rows |-> [j \in 1..Len(df.rows) |->
                      [c \in df.columns \cup {"Run"} |->
                          IF c = "Run"
                          THEN IF df.rows[j]["KPI Name"] = kpi THEN run[j] ELSE NaN
                          ELSE df.rows[j][c]]]]

\* data_set after one pass of the loop body: line 115 filters into a copy and
\* line 116 adds Run to that copy, so data_set is what it was.
HeldAfter(df, kpi) == df

Untouched == [touched |-> FALSE, value |-> <<>>]

\* Lines 155-158: no file uploaded.
NoFile ==
    /\ pc = "start"
    /\ uploaded_file = None
    /\ rendered' = <<"prompt", "prompt", "warning">>
    /\ messages' = <<[kind |-> "warning", about |-> "upload a file", columns |-> <<>>]>>
    /\ pc' = "done"
    /\ UNCHANGED <<uploaded_file, widget, data_set, missing_columns, csv_status,
                   metadata, selected_kpis, listing, analyses, seen_metadata,
                   seen_analyses>>

\* Lines 30-54: read the file and validate it.
Validate ==
    /\ pc = "start"
    /\ uploaded_file # None
    /\ LET df == read_csv(uploaded_file)
           out == ValidationOutcome(df)
       IN  /\ data_set' = df
           /\ missing_columns' = out.missing_columns
           /\ csv_status' = out.csv_status
           /\ messages' = out.messages
           /\ rendered' = out.rendered
           /\ pc' = out.pc
    /\ UNCHANGED <<uploaded_file, widget, metadata, selected_kpis, listing, analyses,
                   seen_metadata, seen_analyses>>

\* Lines 56-73: constant values, distinct features and KPIs, the KPI filter.
ExtractMetadata ==
    /\ pc = "extract"
    /\ LET m == Extract(data_set)
       IN  /\ metadata' = <<m>>
           /\ seen_metadata' = seen_metadata \cup {m}
           /\ selected_kpis' = Multiselect(widget, m.unique_kpis)
    /\ rendered' = rendered \o <<"kpi_filter">>
    /\ pc' = "preview"
    /\ UNCHANGED <<uploaded_file, widget, data_set, missing_columns, csv_status,
                   messages, listing, analyses, seen_analyses>>

\* Lines 75-99: the preview container and the feature-to-KPI listing.
Preview ==
    /\ pc = "preview"
    /\ LET shown == RenderListing(Grouped(data_set))
       IN  /\ listing' = shown.entries
           /\ pc' = IF shown.raised THEN "crashed" ELSE "analyse"
    /\ rendered' = rendered \o <<"constants", "features", "kpi_count", "mapping">>
    /\ UNCHANGED <<uploaded_file, widget, data_set, missing_columns, csv_status,
                   messages, metadata, selected_kpis, analyses, seen_metadata,
                   seen_analyses>>

\* Lines 106-153: one pass of the loop over selected_kpis.
AnalyseKpi ==
    /\ pc = "analyse"
    /\ Len(analyses) < Len(selected_kpis)
    /\ LET kpi == selected_kpis[Len(analyses) + 1]
           a == Analyse(data_set, kpi)
       IN  /\ analyses' = Append(analyses, a)
           /\ seen_analyses' = seen_analyses \cup {a}
           /\ data_set' = HeldAfter(data_set, kpi)
    /\ rendered' = rendered \o <<"trend", "bar", "table">>
    /\ UNCHANGED <<uploaded_file, widget, pc, missing_columns, csv_status, messages,
                   metadata, selected_kpis, listing, seen_metadata>>

\* The loop is exhausted and the script ends.
EndRun ==
    /\ pc = "analyse"
    /\ Len(analyses) = Len(selected_kpis)
    /\ pc' = "done"
    /\ UNCHANGED <<uploaded_file, widget, data_set, missing_columns, csv_status,
                   messages, rendered, metadata, selected_kpis, listing, analyses,
                   seen_metadata, seen_analyses>>

\* The selections a user can make in the multiselect: the options picked, each
\* once, in the order picked.
Selections(options) ==
    LET opts == Range(options)
    IN  {sel \in UNION {[1..k -> opts] : k \in 0..Cardinality(opts)} :
            \A i, j \in 1..Len(sel) : i # j => sel[i] # sel[j]}

\* The user changes the KPI filter; Streamlit runs the script again from the top
\* with the same uploaded file.
Interact ==
    /\ pc \in {"done", "crashed"}
    /\ metadata # <<>>
    /\ \E sel \in Selections(metadata[1].unique_kpis) :
           widget' = [touched |-> TRUE, value |-> sel]
    /\ pc' = "start"
    /\ data_set' = None
    /\ missing_columns' = <<>>
    /\ csv_status' = "unset"
    /\ messages' = <<>>
    /\ rendered' = <<>>
    /\ metadata' = <<>>
    /\ selected_kpis' = <<>>
    /\ listing' = <<>>
    /\ analyses' = <<>>
    /\ UNCHANGED <<uploaded_file, seen_metadata, seen_analyses>>

Next == NoFile \/ Validate \/ ExtractMetadata \/ Preview \/ AnalyseKpi \/ EndRun

NextSession == Next \/ Interact

(***************************************************************************)
(* Uploaded files: the inputs of the model.                                *)
(***************************************************************************)
MaxRows == 2
MaxOddCells == 2
MaxNameRows == 4
MaxGroupRows == 3

AllColumns == Range(REQUIRED_COLUMNS) \cup {"Extra"}

\* A well-formed row's text per column; a family of inputs varies some of it.
BaseText ==
    [c \in AllColumns |->
        CASE c = "Load" -> "Low"
          [] c = "feature" -> "f1"
          [] c = "KPI Name" -> "A"
          [] c = "KPI Value" -> "1"
          [] c = "Extra" -> "x"
          [] OTHER -> "a"]

\* The file with these columns whose i-th row has text[i][c] in column c.
File(cols, n, text) ==
    [columns |-> cols, rows |-> [i \in 1..n |-> [c \in cols |-> text[i][c]]]]

\* Any non-empty set of columns (required ones missing, an extra one present),
\* any row count.
ColumnFiles ==
    {File(cols, n, [i \in 1..n |-> BaseText]) :
        cols \in (SUBSET AllColumns) \ {{}}, n \in 0..MaxRows}

\* All required columns; up to MaxOddCells cells of the constant columns are
\* empty or differ from the others.
OddCellFiles ==
    UNION {
      LET cells == (1..n) \X Range(CONSTANT_COLUMNS)
      IN  UNION {
            {File(Range(REQUIRED_COLUMNS), n,
                  [i \in 1..n |-> [c \in AllColumns |->
                      IF <<i, c>> \in odd THEN f[<<i, c>>] ELSE BaseText[c]]]) :
                f \in [odd -> {"", "b"}]} :
            odd \in {d \in SUBSET cells : Cardinality(d) <= MaxOddCells}}
      : n \in 0..MaxRows}

\* The files with all required columns and up to maxn rows, each row one of `texts`.
Files(maxn, texts) ==
    UNION {{File(Range(REQUIRED_COLUMNS), n, t) : t \in [1..n -> texts]} : n \in 0..maxn}

\* Rows that differ in their KPI name, which may be empty.
NameRows == {[BaseText EXCEPT !["KPI Name"] = k] : k \in {"", "A", "B", "C", "D"}}

\* Rows that differ in feature and KPI name, either of which may be empty.
FeatureRows ==
    {[BaseText EXCEPT !["feature"] = f, !["KPI Name"] = k] :
        f \in {"", "f1", "f2"}, k \in {"", "A", "B"}}

\* Rows that differ in Load, which may be empty, and KPI name.
LoadRows ==
    {[BaseText EXCEPT !["Load"] = l, !["KPI Name"] = k] :
        l \in {"", "Low", "High"}, k \in {"A", "B"}}

\* Rows of one KPI that differ in Load and KPI value, which may be empty.
ValueRows ==
    {[BaseText EXCEPT !["Load"] = l, !["KPI Value"] = v] :
        l \in {"Low", "High"}, v \in {"", "1", "4"}}

\* Rows of one Load that differ in KPI name and KPI value.
KpiRows ==
    {[BaseText EXCEPT !["KPI Name"] = k, !["KPI Value"] = v] :
        k \in {"A", "B"}, v \in {"1", "2", "4"}}

\* The state when a session's script run starts on `file`.
Start(files) ==
    /\ uploaded_file \in files \cup {None}
    /\ widget = Untouched
    /\ pc = "start"
    /\ data_set = None
    /\ missing_columns = <<>>
    /\ csv_status = "unset"
    /\ messages = <<>>
    /\ rendered = <<>>
    /\ metadata = <<>>
    /\ selected_kpis = <<>>
    /\ listing = <<>>
    /\ analyses = <<>>
    /\ seen_metadata = {}
    /\ seen_analyses = {}

Init == Start(ColumnFiles \cup OddCellFiles)

InitMeta == Start(Files(MaxNameRows, NameRows) \cup Files(MaxGroupRows, FeatureRows))

InitAgg ==
    Start(Files(MaxGroupRows, LoadRows) \cup Files(MaxGroupRows, ValueRows)
            \cup Files(MaxGroupRows, KpiRows))

InitSession == Start(Files(MaxRows, LoadRows) \cup Files(MaxRows, KpiRows))

\* Validation of arbitrary uploads.
Spec == Init /\ [][Next]_vars

\* Metadata extraction and the feature-to-KPI listing.
SpecMeta == InitMeta /\ [][Next]_vars

\* Per-KPI aggregation.
SpecAgg == InitAgg /\ [][Next]_vars

\* A session: the user changes the KPI filter and the script runs again.
SpecSession == InitSession /\ [][NextSession]_vars

(***************************************************************************)
(* Properties.  They are stated on the uploaded file's text, not on the    *)
(* operators the script's model is built from.                             *)
(***************************************************************************)
Required == Range(REQUIRED_COLUMNS)

Validated == uploaded_file # None /\ pc # "start"

HasAllColumns == Required \subseteq uploaded_file.columns

\* The distinct non-empty texts of a column of the uploaded file.
Texts(c) == {uploaded_file.rows[i][c] : i \in 1..Len(uploaded_file.rows)} \ {""}

\* The cell a text is read as, in a text column.
CellOf(text) == IF text = "" THEN NaN ELSE <<text>>

ReportsMissing ==
    \E i \in 1..Len(messages) :
        messages[i].kind = "error" /\ messages[i].about = "missing columns"

ReportsInconsistent ==
    \E i \in 1..Len(messages) :
        messages[i].kind = "error" /\ messages[i].about = "inconsistent data"

\* C1: a file that lacks a required column fails with MissingColumns, and the
\* columns the error lists are exactly the required columns the file does not
\* have, each once, whatever extra columns and rows the file has.
C1_MissingColumnsExact ==
    (Validated /\ ~HasAllColumns) =>
        /\ pc = "stopped"
        /\ ReportsMissing /\ ~ReportsInconsistent
        /\ messages[1].columns = missing_columns
        /\ Range(missing_columns) = Required \ uploaded_file.columns
        /\ Len(missing_columns) = Cardinality(Required \ uploaded_file.columns)

C1_Witness ==
    /\ pc = "stopped"
    /\ Len(missing_columns) >= 2
    /\ "Extra" \in uploaded_file.columns
    /\ Len(uploaded_file.rows) > 0

\* C2: a file with every required column fails with InconsistentConstants
\* whenever some constant column's count of distinct (non-empty) values is not 1:
\* two or more distinct values, or none, as in a file with no rows.
C2_InconsistentConstants ==
    (Validated /\ HasAllColumns
        /\ \E c \in Range(CONSTANT_COLUMNS) : Cardinality(Texts(c)) # 1) =>
        /\ csv_status = "false"
        /\ ReportsInconsistent /\ ~ReportsMissing

C2_Witness ==
    /\ Validated /\ HasAllColumns
    /\ csv_status = "false"
    /\ \E c \in Range(CONSTANT_COLUMNS) : Cardinality(Texts(c)) = 2
    /\ \E c \in Range(CONSTANT_COLUMNS) : Cardinality(Texts(c)) = 1

DashboardOutputs ==
    {"title", "kpi_filter", "constants", "features", "kpi_count", "mapping",
     "trend", "bar", "table"}

\* C3: once a run has reported MissingColumns or InconsistentConstants it has
\* ended and renders no dashboard output; with columns missing the constant
\* columns are never checked; a run reports at most one of the two failures.
C3_FailuresTerminal ==
    /\ (ReportsMissing \/ ReportsInconsistent) =>
          /\ pc \in {"stopped", "done"}
          /\ Range(rendered) \cap DashboardOutputs = {}
          /\ metadata = <<>> /\ selected_kpis = <<>>
          /\ listing = <<>> /\ analyses = <<>>
    /\ ReportsMissing => csv_status = "unset"
    /\ ~(ReportsMissing /\ ReportsInconsistent)
    /\ Cardinality({i \in 1..Len(messages) : messages[i].kind = "error"}) <= 1

C3_Witness ==
    /\ ReportsInconsistent
    /\ pc = "done"
    /\ Len(uploaded_file.rows) > 0

\* C6: in a file that passed validation each constant field has the same value
\* in every row, empty cells included, so the value shown (the first row's) is
\* the value of every row.
C6_ConstantInEveryRow ==
    (Validated /\ metadata # <<>>) =>
        \A i \in 1..Len(uploaded_file.rows) :
            /\ CellOf(uploaded_file.rows[i]["OS"]) = metadata[1].os
            /\ CellOf(uploaded_file.rows[i]["Build Number"]) = metadata[1].build
            /\ CellOf(uploaded_file.rows[i]["Target Device"]) = metadata[1].device
            /\ CellOf(uploaded_file.rows[i]["OS Version"]) = metadata[1].os_version

\* C8 as stated: when exactly one constant field has two distinct values, the
\* failure reported names that field and no consistent one.
C8_NamesTheField ==
    \A c \in Range(CONSTANT_COLUMNS) :
        (/\ Validated /\ HasAllColumns
         /\ Cardinality(Texts(c)) = 2
         /\ \A d \in Range(CONSTANT_COLUMNS) \ {c} : Cardinality(Texts(d)) = 1) =>
            /\ ReportsInconsistent
            /\ UNION {Range(messages[i].columns) : i \in 1..Len(messages)} = {c}

\* C8 as the script behaves: the InconsistentConstants failure names no column in
\* its error and all four constant columns in its guidance, whichever is
\* inconsistent.
C8_NamesAllConstantColumns ==
    (Validated /\ HasAllColumns
        /\ \E c \in Range(CONSTANT_COLUMNS) : Cardinality(Texts(c)) # 1) =>
        /\ Len(messages) = 2
        /\ messages[1].kind = "error" /\ messages[1].columns = <<>>
        /\ messages[2].kind = "warning"
        /\ messages[2].columns = <<"OS", "Build Number", "Target Device", "OS Version">>

C8_Witness ==
    /\ ReportsInconsistent
    /\ \E c \in Range(CONSTANT_COLUMNS) :
          /\ Cardinality(Texts(c)) = 2
          /\ \A d \in Range(CONSTANT_COLUMNS) \ {c} : Cardinality(Texts(d)) = 1

\* The rows of the uploaded file whose text in column c is first seen there.
FirstSeen(c) ==
    {i \in 1..Len(uploaded_file.rows) :
        \A j \in 1..(i - 1) : uploaded_file.rows[j][c] # uploaded_file.rows[i][c]}

\* The k-th smallest element of a set of numbers.
KthOf(S, k) == CHOOSE i \in S : Cardinality({j \in S : j < i}) = k - 1

\* C7: on a valid file the default KPI selection is the first three distinct
\* values of the KPI Name column in first-seen (row) order, not sorted, or all of
\* them when there are fewer than three (an empty cell counts as one value).
C7_DefaultFirstThree ==
    (Validated /\ metadata # <<>> /\ ~widget.touched) =>
        LET first == FirstSeen("KPI Name")
            n == IF Cardinality(first) < 3 THEN Cardinality(first) ELSE 3
        IN  /\ Len(selected_kpis) = n
            /\ \A k \in 1..n :
                  selected_kpis[k] = CellOf(uploaded_file.rows[KthOf(first, k)]["KPI Name"])

C7_Witness ==
    /\ metadata # <<>>
    /\ metadata[1].unique_kpis = <<<<"D">>, <<"B">>, <<"A">>, <<"C">>>>
    /\ selected_kpis = <<<<"D">>, <<"B">>, <<"A">>>>

\* The preview section, listing included, has run.
PreviewDone == pc \in {"analyse", "done", "crashed"} /\ metadata # <<>>

\* C10: on a valid file the feature-to-KPI listing has exactly one entry per
\* distinct feature, and the entry of feature f lists exactly the distinct KPI
\* Name values of the rows with feature f, each once, in lexicographic order.
C10_ListingPerFeature ==
    PreviewDone =>
        /\ Len(listing) = Cardinality(Texts("feature"))
        /\ {listing[k].feature : k \in 1..Len(listing)} =
               {CellOf(f) : f \in Texts("feature")}
        /\ \A k \in 1..Len(listing) :
              LET kpis == listing[k].kpis
              IN  /\ Range(kpis) =
                        {CellOf(uploaded_file.rows[i]["KPI Name"]) :
                            i \in {i \in 1..Len(uploaded_file.rows) :
                                      CellOf(uploaded_file.rows[i]["feature"])
                                          = listing[k].feature}}
                  /\ \A i, j \in 1..Len(kpis) :
                        i < j => kpis[i] # kpis[j]
                  /\ \A i, j \in 1..Len(kpis) :
                        (i < j /\ kpis[i] # NaN /\ kpis[j] # NaN) =>
                            TextRank(kpis[i][1]) < TextRank(kpis[j][1])

\* The rows of the uploaded file with this KPI name, and those of them with this Load.
RowsOfKpi(kpi) ==
    {i \in 1..Len(uploaded_file.rows) :
        kpi # NaN /\ uploaded_file.rows[i]["KPI Name"] = kpi[1]}

RowsOfLoad(kpi, load) == {i \in RowsOfKpi(kpi) : uploaded_file.rows[i]["Load"] = load}

\* The distinct Load values among the rows of this KPI.
LoadsOf(kpi) == {uploaded_file.rows[i]["Load"] : i \in RowsOfKpi(kpi)} \ {""}

\* C4: for every selected KPI, kpi_data holds the rows of that KPI in file order,
\* and within each Load group the Run indices are exactly 1..n, without gap or
\* duplicate, the k-th row of the group in file order having Run k.
C4_RunIndicesContiguous ==
    \A a \in Range(analyses) :
        LET frame == a.kpi_data
            at(i) == CHOOSE j \in 1..Len(frame.index) : frame.index[j] = i
        IN  /\ Range(frame.index) = RowsOfKpi(a.kpi)
            /\ \A j, k \in 1..Len(frame.index) : j < k => frame.index[j] < frame.index[k]
            /\ \A load \in LoadsOf(a.kpi) :
                  LET group == RowsOfLoad(a.kpi, load)
                  IN  /\ {frame.rows[at(i)]["Run"] : i \in group} =
                             {<<r>> : r \in 1..Cardinality(group)}
                      /\ \A i \in group :
                            frame.rows[at(i)]["Run"] =
                                <<Cardinality({h \in group : h <= i})>>

C4_Witness ==
    \E a \in Range(analyses) :
        /\ Len(a.kpi_data.rows) = 3
        /\ a.kpi_data.rows[1]["Load"] = <<"Low">> /\ a.kpi_data.rows[1]["Run"] = <<1>>
        /\ a.kpi_data.rows[2]["Load"] = <<"High">> /\ a.kpi_data.rows[2]["Run"] = <<1>>
        /\ a.kpi_data.rows[3]["Load"] = <<"Low">> /\ a.kpi_data.rows[3]["Run"] = <<2>>

\* The KPI values of a set of rows of the uploaded file that have one.
Valued(rows) == {i \in rows : uploaded_file.rows[i]["KPI Value"] # ""}

ValueAt(i) == NumberOf(uploaded_file.rows[i]["KPI Value"])

RECURSIVE Total(_)
Total(rows) ==
    IF rows = {} THEN 0
    ELSE LET i == CHOOSE i \in rows : TRUE IN ValueAt(i) + Total(rows \ {i})

\* The value of rank k (1 = smallest) among the values of the rows.
Ranked(rows, k) ==
    CHOOSE x \in {ValueAt(i) : i \in rows} :
        /\ Cardinality({i \in rows : ValueAt(i) < x}) < k
        /\ Cardinality({i \in rows : ValueAt(i) <= x}) >= k

\* stat is the number num / den (NaN when there is no value to compute it from).
IsNumber(stat, some, num, den) ==
    IF ~some THEN stat = NaN
    ELSE /\ stat # NaN
         /\ stat[2] > 0
         /\ stat[1] * den = num * stat[2]

\* C5: for every selected KPI, the bar series and the summary table have exactly
\* one row per distinct Load value of that KPI's rows; the bar value is the mean
\* of the group's KPI values, and the summary's min, max, mean and median are
\* those of the group (median: the middle of the sorted values, the average of
\* the two central ones for an even count).
C5_BarAndSummary ==
    \A a \in Range(analyses) :
        /\ Len(a.mean_data) = Cardinality(LoadsOf(a.kpi))
        /\ Len(a.summary) = Cardinality(LoadsOf(a.kpi))
        /\ {a.mean_data[k].Load : k \in 1..Len(a.mean_data)} =
               {<<load>> : load \in LoadsOf(a.kpi)}
        /\ {a.summary[k].Load : k \in 1..Len(a.summary)} =
               {<<load>> : load \in LoadsOf(a.kpi)}
        /\ \A k \in 1..Len(a.mean_data) :
              LET group == Valued(RowsOfLoad(a.kpi, a.mean_data[k].Load[1]))
                  n == Cardinality(group)
              IN  IsNumber(a.mean_data[k].value, n > 0, Total(group), n)
        /\ \A k \in 1..Len(a.summary) :
              LET group == Valued(RowsOfLoad(a.kpi, a.summary[k].Load[1]))
                  n == Cardinality(group)
                  row == a.summary[k]
              IN  /\ IsNumber(row.mean, n > 0, Total(group), n)
                  /\ IsNumber(row.min, n > 0, Ranked(group, 1), 1)
                  /\ IsNumber(row.max, n > 0, Ranked(group, n), 1)
                  /\ IsNumber(row.median, n > 0,
                              Ranked(group, (n + 1) \div 2) + Ranked(group, n \div 2 + 1), 2)

C5_Witness ==
    \E a \in Range(analyses) :
        /\ Len(a.summary) = 2
        /\ Len(a.mean_data) = 2
        /\ a.summary[1].median = <<5, 2>>
        /\ a.summary[1].min = <<1, 1>>
        /\ a.summary[1].max = <<4, 1>>
        /\ a.mean_data[1].value = <<5, 2>>

\* C9: aggregation leaves the held dataset as it was read (Run is added to the
\* per-KPI copy only), and running extraction and aggregation again on the same
\* upload and KPI gives the same metadata, Run indices, bar series and summary.
C9_NoMutationIdempotent ==
    /\ data_set # None =>
          /\ data_set = read_csv(uploaded_file)
          /\ "Run" \notin data_set.columns
    /\ \A a \in Range(analyses) : "Run" \in a.kpi_data.columns
    /\ Cardinality(seen_metadata) <= 1
    /\ \A a, b \in seen_analyses : a.kpi = b.kpi => a = b

C9_Witness ==
    /\ widget.touched
    /\ pc = "done"
    /\ metadata[1].unique_kpis = <<<<"A">>, <<"B">>>>
    /\ Len(analyses) = 2
    /\ analyses[1].kpi = <<"B">>
    /\ analyses[2].kpi = <<"A">>
    /\ Cardinality(seen_analyses) = 2

====
